---- MODULE Spec2Model ----
(***************************************************************************)
(* Event-management backend (event-management-system/backend/app.py).      *)
(* The state is the relational store (User, Event, RSVP, Comment tables    *)
(* with their primary-key sequences), the requests that are between their  *)
(* existence check and their insert, and the last response sent.           *)
(* Every handler runs under @jwt_required with an identity that is the id  *)
(* of a registered user (tokens are only issued by register/login).        *)
(* Left out: the columns no handler decides on (User.name, password and    *)
(* profile_photo, the created_at and timestamp defaults).                  *)
(***************************************************************************)
EXTENDS Integers, Sequences, FiniteSets, Bags, TLC

\* ---------------------------------------------------------------- bounds
\* Rows ever inserted into event and comment, and requests admitted past the
\* existence check of register and of create_rsvp (in flight or inserted).
MaxEvents == 1
MaxComments == 1
MaxRegistrations == 2
MaxRsvpRequests == 2

\* ------------------------------------------------------- input universes
Emails == {"a@x.org", "b@x.org"}
Roles == {"student", "organizer"}
Names == {"", "Ann"}
Passwords == {"", "pw"}
Prices == {0, 5}
DateInputs == {"", "soon", "2030-01-01T10:00:00Z", "2030-01-01T10:00:00+00:00",
               "2030-02-01T10:00:00+00:00"}
Contents == {"", "hi"}

VARIABLES users, events, rsvps, comments,
          next_event_id, next_rsvp_id, next_comment_id,
          reg_inflight, rsvp_inflight, resp

vars == <<users, events, rsvps, comments, next_event_id, next_rsvp_id,
          next_comment_id, reg_inflight, rsvp_inflight, resp>>

db == <<users, events, rsvps, comments>>

\* ------------------------------------------------------------ the tables
\* User: id is the position in users (rows are never deleted).
User(email, role) == [email |-> email, role |-> role]

Event(id, title, description, date, location, price, banner, organizer_id) ==
    [id |-> id, title |-> title, description |-> description, date |-> date,
     location |-> location, price |-> price, banner |-> banner,
     organizer_id |-> organizer_id]

RSVP(id, user_id, event_id, payment_status) ==
    [id |-> id, user_id |-> user_id, event_id |-> event_id,
     payment_status |-> payment_status]

Comment(id, user_id, event_id, content) ==
    [id |-> id, user_id |-> user_id, event_id |-> event_id, content |-> content]

UserIds == 1..Len(users)
EventIds == 1..MaxEvents
CommentIds == 1..MaxComments

\* ------------------------------------------------------------- responses
\* The last response sent: the handler that answered, its HTTP status, its
\* 'message' or 'error' text and, for get_rsvp_status, the JSON body; roster
\* is the JSON array of get_event_rsvps (empty in every other response). A
\* request that passed its existence check and has not reached its insert has
\* not answered yet.
Response(op, status, text, rsvp_status, payment_status) ==
    [op |-> op, status |-> status, text |-> text, rsvp_status |-> rsvp_status,
     payment_status |-> payment_status, roster |-> {}]

Reply(op, status, text) == Response(op, status, text, "", "")

\* get_or_404 on a missing row; an IntegrityError raised by the commit.
NotFound(op) == Reply(op, 404, "Not Found")
IntegrityError(op) == Reply(op, 500, "Internal Server Error")

\* --------------------------------------------------------------- queries
\* User.query.filter_by(email=...).first()
UsersByEmail(email) == {i \in UserIds : users[i].email = email}

\* Event.query.get(event_id)
EventsById(event_id) == {e \in events : e.id = event_id}

\* RSVP.query.filter_by(user_id=..., event_id=...)
RsvpsOf(user_id, event_id) ==
    {r \in rsvps : r.user_id = user_id /\ r.event_id = event_id}

\* Comment.query.get(comment_id)
CommentsById(comment_id) == {c \in comments : c.id = comment_id}

\* The rows that reference an event through event_id (Event.rsvps, Event.comments).
EventRsvps(event_id) == {r \in rsvps : r.event_id = event_id}
EventComments(event_id) == {c \in comments : c.event_id = event_id}

\* -------------------------------------------------------------- helpers
\* data['date'].replace('Z', '+00:00')
ReplaceZ(s) ==
    IF s = "2030-01-01T10:00:00Z" THEN "2030-01-01T10:00:00+00:00" ELSE s

\* datetime.fromisoformat: the parsed instant, or ValueError.
FromIsoFormat(s) ==
    CASE s = "2030-01-01T10:00:00+00:00" -> [ok |-> TRUE, value |-> 1]
      [] s = "2030-02-01T10:00:00+00:00" -> [ok |-> TRUE, value |-> 2]
      [] OTHER -> [ok |-> FALSE, value |-> 0]

ParseDate(s) == FromIsoFormat(ReplaceZ(s))

\* price=data.get('price', 0.0); a None value leaves the column to its default 0.0
PriceOrDefault(price_in) == IF price_in = {} THEN 0 ELSE CHOOSE p \in price_in : TRUE

\* role=data.get('role', 'student')
RoleOrDefault(role_in) == IF role_in = {} THEN "student" ELSE CHOOSE r \in role_in : TRUE

\* payment_status left to the column default 'pending' (line 63).
PaymentStatusDefault(price) == "pending"

\* 'free' if event.price == 0 else 'pending'
PaymentStatusFor(price) == IF price = 0 THEN "free" ELSE "pending"

RegistrationsAdmitted == Len(users) + BagCardinality(reg_inflight)

RsvpRequestsAdmitted == (next_rsvp_id - 1) + BagCardinality(rsvp_inflight)

\* A JSON value that may be absent (or null): {} or {x}.
Optional(S) == {{}} \cup {{x} : x \in S}

\* The JSON body of register; an absent or empty string is "".
RegisterBody(name, email, password, role) ==
    [name |-> name, email |-> email, password |-> password, role |-> role]

\* The JSON body of create_event and update_event; an absent or empty string
\* is "", an absent or null price is {}.
EventBody(title, description, date, location, price, banner) ==
    [title |-> title, description |-> description, date |-> date,
     location |-> location, price |-> price, banner |-> banner]

\* ------------------------------------------------------------------ Init
Init ==
    /\ users = <<>>
    /\ events = {}
    /\ rsvps = {}
    /\ comments = {}
    /\ next_event_id = 1
    /\ next_rsvp_id = 1
    /\ next_comment_id = 1
    /\ reg_inflight = EmptyBag
    /\ rsvp_inflight = EmptyBag
    /\ resp = Reply("none", 0, "")

\* -------------------------------------------------------------- register
\* Lines 76-84: validation and the existence check; the request then holds
\* its data until the insert.
register_check(data) ==
    /\ IF data.email = "" \/ data.password = "" \/ data.name = ""
       THEN /\ resp' = Reply("register", 400, "Missing required fields")
            /\ UNCHANGED reg_inflight
       ELSE IF UsersByEmail(data.email) # {}
       THEN /\ resp' = Reply("register", 400, "Email already registered")
            /\ UNCHANGED reg_inflight
       ELSE /\ RegistrationsAdmitted < MaxRegistrations
            /\ reg_inflight' = reg_inflight (+)
                 SetToBag({User(data.email, RoleOrDefault(data.role))})
            /\ UNCHANGED resp
    /\ UNCHANGED <<db, next_event_id, next_rsvp_id, next_comment_id, rsvp_inflight>>

\* User.email declared without unique=True.
EmailNotConstrained(email) == FALSE

\* The unique constraint of User.email (line 33) as the store applies it at commit.
EmailUniqueViolated(email) == UsersByEmail(email) # {}

\* Lines 86-107: the insert and commit; the store rejects a second row with the
\* same email (IntegrityError, surfacing as a 500).
register_insert(u) ==
    /\ BagIn(u, reg_inflight)
    /\ reg_inflight' = reg_inflight (-) SetToBag({u})
    /\ IF EmailUniqueViolated(u.email)
       THEN /\ resp' = IntegrityError("register")
            /\ UNCHANGED users
       ELSE /\ users' = Append(users, u)
            /\ resp' = Reply("register", 201, "User registered successfully")
    /\ UNCHANGED <<events, rsvps, comments, next_event_id, next_rsvp_id,
                   next_comment_id, rsvp_inflight>>

\* ---------------------------------------------------------- create_event
\* The role check left out.
IsOrganizerSkipped(caller) == TRUE

\* user.role != 'organizer' (line 179), negated
IsOrganizer(caller) == users[caller].role = "organizer"

create_event(caller, data) ==
    /\ caller \in UserIds
    /\ IF ~IsOrganizer(caller)
       THEN /\ resp' = Reply("create_event", 403, "Only organizers can create events")
            /\ UNCHANGED <<events, next_event_id>>
       ELSE IF data.title = "" \/ data.description = "" \/ data.date = ""
                 \/ data.location = ""
       THEN /\ resp' = Reply("create_event", 400, "Missing required fields")
            /\ UNCHANGED <<events, next_event_id>>
       ELSE IF ~ParseDate(data.date).ok
       THEN /\ resp' = Reply("create_event", 400, "Invalid date format")
            /\ UNCHANGED <<events, next_event_id>>
       ELSE /\ next_event_id <= MaxEvents
            /\ events' = events \cup
                 {Event(next_event_id, data.title, data.description,
                        ParseDate(data.date).value, data.location,
                        PriceOrDefault(data.price), data.banner, caller)}
            /\ next_event_id' = next_event_id + 1
            /\ resp' = Reply("create_event", 201, "Event created successfully")
    /\ UNCHANGED <<users, rsvps, comments, next_rsvp_id, next_comment_id,
                   reg_inflight, rsvp_inflight>>

\* ---------------------------------------------------------- update_event
\* The price tested for truth like the other fields: a price of 0 is skipped.
PatchEventTruthyPrice(e, data) ==
    [e EXCEPT !.title = IF data.title # "" THEN data.title ELSE @,
              !.description = IF data.description # "" THEN data.description ELSE @,
              !.date = IF data.date # "" THEN ParseDate(data.date).value ELSE @,
              !.location = IF data.location # "" THEN data.location ELSE @,
              !.price = IF data.price # {} /\ data.price # {0}
                        THEN CHOOSE p \in data.price : TRUE ELSE @,
              !.banner = IF data.banner # "" THEN data.banner ELSE @]

\* Lines 246-260: the partial patch. A malformed date returns before the
\* commit, and the request's session is discarded with its pending changes.
PatchEvent(e, data) ==
    [e EXCEPT !.title = IF data.title # "" THEN data.title ELSE @,
              !.description = IF data.description # "" THEN data.description ELSE @,
              !.date = IF data.date # "" THEN ParseDate(data.date).value ELSE @,
              !.location = IF data.location # "" THEN data.location ELSE @,
              !.price = IF data.price # {} THEN CHOOSE p \in data.price : TRUE ELSE @,
              !.banner = IF data.banner # "" THEN data.banner ELSE @]

\* The assignments made before the date commit with the error response.
CommittedBeforeDate(e, data) ==
    [e EXCEPT !.title = IF data.title # "" THEN data.title ELSE @,
              !.description = IF data.description # "" THEN data.description ELSE @]

\* The row after the return of line 252: title and description (lines 246-249)
\* were assigned on the session's object only; the handler returns without a
\* commit and the session is removed with the request, so the row is as it was.
AfterInvalidDate(e, data) == e

\* The caller's role checked in place of the event's owner.
NotOrganizerByRole(e, caller) == users[caller].role # "organizer"

\* event.organizer_id != user_id
NotOrganizer(e, caller) == e.organizer_id # caller

\* The event's RSVPs re-derived from the patched price at the commit.
update_event_resyncing(caller, event_id, data) ==
    /\ caller \in UserIds
    /\ IF EventsById(event_id) = {}
       THEN /\ resp' = NotFound("update_event")
            /\ UNCHANGED <<events, rsvps>>
       ELSE LET e == CHOOSE x \in EventsById(event_id) : TRUE IN
            IF NotOrganizer(e, caller)
            THEN /\ resp' = Reply("update_event", 403, "Only the organizer can update this event")
                 /\ UNCHANGED <<events, rsvps>>
            ELSE IF data.date # "" /\ ~ParseDate(data.date).ok
            THEN /\ resp' = Reply("update_event", 400, "Invalid date format")
                 /\ UNCHANGED <<events, rsvps>>
            ELSE /\ events' = (events \ {e}) \cup {PatchEvent(e, data)}
                 /\ rsvps' = {IF r.event_id = event_id
                                THEN [r EXCEPT !.payment_status =
                                        PaymentStatusFor(PatchEvent(e, data).price)]
                                ELSE r : r \in rsvps}
                 /\ resp' = Reply("update_event", 200, "Event updated successfully")
    /\ UNCHANGED <<users, comments, next_event_id, next_rsvp_id,
                   next_comment_id, reg_inflight, rsvp_inflight>>

update_event(caller, event_id, data) ==
    /\ caller \in UserIds
    /\ IF EventsById(event_id) = {}
       THEN /\ resp' = NotFound("update_event")
            /\ UNCHANGED events
       ELSE LET e == CHOOSE x \in EventsById(event_id) : TRUE IN
            IF NotOrganizer(e, caller)
            THEN /\ resp' = Reply("update_event", 403, "Only the organizer can update this event")
                 /\ UNCHANGED events
            ELSE IF data.date # "" /\ ~ParseDate(data.date).ok
            THEN /\ resp' = Reply("update_event", 400, "Invalid date format")
                 /\ events' = (events \ {e}) \cup {AfterInvalidDate(e, data)}
            ELSE /\ events' = (events \ {e}) \cup {PatchEvent(e, data)}
                 /\ resp' = Reply("update_event", 200, "Event updated successfully")
    /\ UNCHANGED <<users, rsvps, comments, next_event_id, next_rsvp_id,
                   next_comment_id, reg_inflight, rsvp_inflight>>

\* ---------------------------------------------------------- delete_event
\* Event.rsvps and Event.comments (lines 56-57) declare no cascade: deleting
\* the parent sets the children's event_id to NULL, which nullable=False
\* (lines 62, 69) rejects, so the commit fails and nothing is deleted.
DeleteBlocked(event_id) == EventRsvps(event_id) # {} \/ EventComments(event_id) # {}

delete_event(caller, event_id) ==
    /\ caller \in UserIds
    /\ IF EventsById(event_id) = {}
       THEN /\ resp' = NotFound("delete_event")
            /\ UNCHANGED events
       ELSE LET e == CHOOSE x \in EventsById(event_id) : TRUE IN
            IF NotOrganizer(e, caller)
            THEN /\ resp' = Reply("delete_event", 403, "Only the organizer can delete this event")
                 /\ UNCHANGED events
            ELSE IF DeleteBlocked(event_id)
            THEN /\ resp' = IntegrityError("delete_event")
                 /\ UNCHANGED events
            ELSE /\ events' = events \ {e}
                 /\ resp' = Reply("delete_event", 200, "Event deleted successfully")
    /\ UNCHANGED <<users, rsvps, comments, next_event_id, next_rsvp_id,
                   next_comment_id, reg_inflight, rsvp_inflight>>

\* ----------------------------------------------------------- create_rsvp
\* Lines 284-295: validation, the event lookup and the existence check. The
\* request keeps the event it loaded (with its price) until the insert.
\* The existence check left out.
AlreadyRsvpdSkipped(caller, event_id) == FALSE

\* Lines 293-294: existing_rsvp
AlreadyRsvpd(caller, event_id) == RsvpsOf(caller, event_id) # {}

create_rsvp_check(caller, event_id) ==
    /\ caller \in UserIds
    /\ IF event_id = 0
       THEN /\ resp' = Reply("create_rsvp", 400, "Event ID is required")
            /\ UNCHANGED rsvp_inflight
       ELSE IF EventsById(event_id) = {}
       THEN /\ resp' = NotFound("create_rsvp")
            /\ UNCHANGED rsvp_inflight
       ELSE IF AlreadyRsvpd(caller, event_id)
       THEN /\ resp' = Reply("create_rsvp", 400, "Already RSVP'd to this event")
            /\ UNCHANGED rsvp_inflight
       ELSE LET e == CHOOSE x \in EventsById(event_id) : TRUE IN
            /\ RsvpRequestsAdmitted < MaxRsvpRequests
            /\ rsvp_inflight' = rsvp_inflight (+)
                 SetToBag({[user_id |-> caller, event_id |-> event_id, price |-> e.price]})
            /\ UNCHANGED resp
    /\ UNCHANGED <<db, next_event_id, next_rsvp_id, next_comment_id, reg_inflight>>

\* What the store (PostgreSQL, line 17) checks when the RSVP row is committed:
\* the foreign key to event (line 62). The RSVP table declares no unique
\* constraint (lines 59-64).
RsvpInsertRejected(user_id, event_id) == EventsById(event_id) = {}

\* Lines 297-306: the insert and commit.
create_rsvp_insert(q) ==
    /\ BagIn(q, rsvp_inflight)
    /\ rsvp_inflight' = rsvp_inflight (-) SetToBag({q})
    /\ IF RsvpInsertRejected(q.user_id, q.event_id)
       THEN /\ resp' = IntegrityError("create_rsvp")
            /\ UNCHANGED <<rsvps, next_rsvp_id>>
       ELSE /\ rsvps' = rsvps \cup
                 {RSVP(next_rsvp_id, q.user_id, q.event_id, PaymentStatusFor(q.price))}
            /\ next_rsvp_id' = next_rsvp_id + 1
            /\ resp' = Reply("create_rsvp", 201, "RSVP created successfully")
    /\ UNCHANGED <<users, events, comments, next_event_id, next_comment_id, reg_inflight>>

\* ----------------------------------------------------------- cancel_rsvp
\* .first() without ORDER BY: any one of the matching rows.
cancel_rsvp(caller, event_id) ==
    /\ caller \in UserIds
    /\ IF RsvpsOf(caller, event_id) = {}
       THEN /\ resp' = Reply("cancel_rsvp", 404, "RSVP not found")
            /\ UNCHANGED rsvps
       ELSE \E r \in RsvpsOf(caller, event_id) :
            /\ rsvps' = rsvps \ {r}
            /\ resp' = Reply("cancel_rsvp", 200, "RSVP cancelled successfully")
    /\ UNCHANGED <<users, events, comments, next_event_id, next_rsvp_id,
                   next_comment_id, reg_inflight, rsvp_inflight>>

\* ------------------------------------------------------- get_rsvp_status
\* The lookup filtered by event_id alone.
get_rsvp_status_any_user(caller, event_id) ==
    /\ caller \in UserIds
    /\ IF EventRsvps(event_id) = {}
       THEN resp' = Response("get_rsvp_status", 200, "", "not_rsvpd", "")
       ELSE \E r \in EventRsvps(event_id) :
            resp' = Response("get_rsvp_status", 200, "", "rsvpd",
                             r.payment_status)
    /\ UNCHANGED <<db, next_event_id, next_rsvp_id, next_comment_id,
                   reg_inflight, rsvp_inflight>>

get_rsvp_status(caller, event_id) ==
    /\ caller \in UserIds
    /\ IF RsvpsOf(caller, event_id) = {}
       THEN resp' = Response("get_rsvp_status", 200, "", "not_rsvpd", "")
       ELSE \E r \in RsvpsOf(caller, event_id) :
            resp' = Response("get_rsvp_status", 200, "", "rsvpd",
                             r.payment_status)
    /\ UNCHANGED <<db, next_event_id, next_rsvp_id, next_comment_id,
                   reg_inflight, rsvp_inflight>>

\* ------------------------------------------------------- get_event_rsvps
\* One element of rsvps_data (lines 439-447): the RSVP joined to its user;
\* user_name and created_at are columns left out of the model. Users are never
\* deleted, so the 'Unknown' fallback is not taken.
RosterRow(r) ==
    [id |-> r.id, user_email |-> users[r.user_id].email,
     payment_status |-> r.payment_status]

\* jsonify(rsvps_data); .all() carries no ORDER BY, the rows are kept as a set.
RosterReply(rows) == [Reply("get_event_rsvps", 200, "") EXCEPT !.roster = rows]

\* The owner check left out.
get_event_rsvps_unchecked(caller, event_id) ==
    /\ caller \in UserIds
    /\ IF EventsById(event_id) = {}
       THEN resp' = NotFound("get_event_rsvps")
       ELSE resp' = RosterReply({RosterRow(r) : r \in EventRsvps(event_id)})
    /\ UNCHANGED <<db, next_event_id, next_rsvp_id, next_comment_id,
                   reg_inflight, rsvp_inflight>>

get_event_rsvps(caller, event_id) ==
    /\ caller \in UserIds
    /\ IF EventsById(event_id) = {}
       THEN resp' = NotFound("get_event_rsvps")
       ELSE LET e == CHOOSE x \in EventsById(event_id) : TRUE IN
            IF NotOrganizer(e, caller)
            THEN resp' = Reply("get_event_rsvps", 403,
                               "Only the organizer can view RSVPs for this event")
            ELSE resp' = RosterReply({RosterRow(r) : r \in EventRsvps(event_id)})
    /\ UNCHANGED <<db, next_event_id, next_rsvp_id, next_comment_id,
                   reg_inflight, rsvp_inflight>>

\* -------------------------------------------------------- create_comment
\* Comment.event_id without its foreign key.
CommentInsertUnchecked(event_id) == FALSE

\* The foreign key to event (line 69) rejects a comment on a missing event.
CommentInsertRejected(event_id) == EventsById(event_id) = {}

create_comment(caller, event_id, content) ==
    /\ caller \in UserIds
    /\ IF content = ""
       THEN /\ resp' = Reply("create_comment", 400, "Comment content is required")
            /\ UNCHANGED <<comments, next_comment_id>>
       ELSE IF CommentInsertRejected(event_id)
       THEN /\ resp' = IntegrityError("create_comment")
            /\ UNCHANGED <<comments, next_comment_id>>
       ELSE /\ next_comment_id <= MaxComments
            /\ comments' = comments \cup
                 {Comment(next_comment_id, caller, event_id, content)}
            /\ next_comment_id' = next_comment_id + 1
            /\ resp' = Reply("create_comment", 201, "Comment added successfully")
    /\ UNCHANGED <<users, events, rsvps, next_event_id, next_rsvp_id,
                   reg_inflight, rsvp_inflight>>

\* -------------------------------------------------------- delete_comment
\* The author check left out.
NotAuthorSkipped(c, caller) == FALSE

\* comment.user_id != user_id
NotAuthor(c, caller) == c.user_id # caller

delete_comment(caller, comment_id) ==
    /\ caller \in UserIds
    /\ IF CommentsById(comment_id) = {}
       THEN /\ resp' = NotFound("delete_comment")
            /\ UNCHANGED comments
       ELSE LET c == CHOOSE x \in CommentsById(comment_id) : TRUE IN
            IF NotAuthor(c, caller)
            THEN /\ resp' = Reply("delete_comment", 403, "Only the comment author can delete this comment")
                 /\ UNCHANGED comments
            ELSE /\ comments' = comments \ {c}
                 /\ resp' = Reply("delete_comment", 200, "Comment deleted successfully")
    /\ UNCHANGED <<users, events, rsvps, next_event_id, next_rsvp_id,
                   next_comment_id, reg_inflight, rsvp_inflight>>

\* ----------------------------------------------------------------- specs
\* The requests a client can send, each with its inputs.
RegisterBodies ==
    {RegisterBody(name, email, password, role) :
       name \in Names, email \in Emails \cup {""}, password \in Passwords,
       role \in Optional(Roles)}

\* Bodies of create_event: complete or with the title missing, any date.
CreateBodies ==
    {EventBody(title, "About", date, "Hall", price, "") :
       title \in {"Talk", ""}, date \in DateInputs, price \in Optional(Prices)}

\* Complete bodies of create_event that differ in the price.
ValidCreateBodies ==
    {EventBody("Talk", "About", "2030-01-01T10:00:00Z", "Hall", price, "") :
       price \in Optional(Prices)}

\* Bodies of update_event that supply at most a price.
PriceBodies == {EventBody("", "", "", "", price, "") : price \in Optional(Prices)}

Register == \E data \in RegisterBodies : register_check(data)

RegisterInsert == \E u \in BagToSet(reg_inflight) : register_insert(u)

CreateEvent == \E caller \in UserIds, data \in CreateBodies : create_event(caller, data)

CreateEventValid ==
    \E caller \in UserIds, data \in ValidCreateBodies : create_event(caller, data)

UpdatePrice ==
    \E caller \in UserIds, event_id \in EventIds, data \in PriceBodies :
        update_event(caller, event_id, data)

DeleteEvent == \E caller \in UserIds, event_id \in EventIds : delete_event(caller, event_id)

CreateRsvp ==
    \E caller \in UserIds, event_id \in 0..MaxEvents : create_rsvp_check(caller, event_id)

CreateRsvpInsert == \E q \in BagToSet(rsvp_inflight) : create_rsvp_insert(q)

CancelRsvp == \E caller \in UserIds, event_id \in EventIds : cancel_rsvp(caller, event_id)

GetRsvpStatus ==
    \E caller \in UserIds, event_id \in EventIds : get_rsvp_status(caller, event_id)

CreateComment ==
    \E caller \in UserIds, event_id \in EventIds, content \in Contents :
        create_comment(caller, event_id, content)

DeleteComment ==
    \E caller \in UserIds, comment_id \in CommentIds : delete_comment(caller, comment_id)

\* The store after two registrations (states SpecAuth reaches); events, RSVPs
\* and comments start empty.
Seeded(seeds) ==
    /\ users \in seeds
    /\ events = {}
    /\ rsvps = {}
    /\ comments = {}
    /\ next_event_id = 1
    /\ next_rsvp_id = 1
    /\ next_comment_id = 1
    /\ reg_inflight = EmptyBag
    /\ rsvp_inflight = EmptyBag
    /\ resp = Reply("none", 0, "")

\* Registration and event creation, from the empty store.
NextAuth == Register \/ RegisterInsert \/ CreateEvent \/ DeleteEvent

SpecAuth == Init /\ [][NextAuth]_vars

OrganizerAndStudent == <<User("a@x.org", "organizer"), User("b@x.org", "student")>>
TwoOrganizers == <<User("a@x.org", "organizer"), User("b@x.org", "organizer")>>

InitRsvp == Seeded({OrganizerAndStudent})
InitSeeded == Seeded({OrganizerAndStudent, TwoOrganizers})

\* Events and RSVPs between an organizer and a student.
NextRsvp ==
    \/ CreateEventValid
    \/ UpdatePrice
    \/ DeleteEvent
    \/ CreateRsvp
    \/ CreateRsvpInsert
    \/ CancelRsvp
    \/ GetRsvpStatus

SpecRsvp == InitRsvp /\ [][NextRsvp]_vars

\* Events and comments between registered users.
NextComment == CreateEventValid \/ DeleteEvent \/ CreateComment \/ DeleteComment

SpecComment == InitSeeded /\ [][NextComment]_vars

\* Event ownership: two organizers, each able to own events; the second user
\* also attends (RSVPs and comments), so that events have dependents.
OwnerCreate ==
    \E caller \in UserIds :
        create_event(caller, EventBody("Talk", "About", "2030-01-01T10:00:00Z", "Hall", {}, ""))

\* The body of update_event that sets the price to 5.
NewPriceBodies == {EventBody("", "", "", "", {5}, "")}

OwnerUpdate ==
    \E caller \in UserIds, event_id \in EventIds, data \in NewPriceBodies :
        update_event(caller, event_id, data)

AttendeeRsvp == \E event_id \in EventIds : create_rsvp_check(2, event_id)

AttendeeComment == \E event_id \in EventIds : create_comment(2, event_id, "hi")

NextOwner ==
    \/ OwnerCreate
    \/ OwnerUpdate
    \/ DeleteEvent
    \/ AttendeeRsvp
    \/ CreateRsvpInsert
    \/ AttendeeComment

SpecOwner == Seeded({TwoOrganizers}) /\ [][NextOwner]_vars

\* Bodies of update_event: nothing, one field, several fields, all six, and a
\* malformed date after a title and a description.
PatchBodies ==
    { EventBody("", "", "", "", {}, ""),
      EventBody("Talk2", "", "", "", {}, ""),
      EventBody("", "New", "", "", {}, ""),
      EventBody("", "", "2030-02-01T10:00:00+00:00", "", {}, ""),
      EventBody("", "", "", "", {0}, ""),
      EventBody("", "", "", "", {5}, ""),
      EventBody("", "", "", "Lab", {}, "b.png"),
      EventBody("Talk2", "New", "2030-02-01T10:00:00+00:00", "Lab", {0}, "b.png"),
      EventBody("Talk2", "New", "soon", "", {}, ""),
      EventBody("Talk2", "New", "soon", "Lab", {5}, "b.png") }

UpdateEvent ==
    \E caller \in UserIds, event_id \in EventIds, data \in PatchBodies :
        update_event(caller, event_id, data)

\* Events created and patched by an organizer, with a student who owns none.
NextPatch == CreateEventValid \/ UpdateEvent

SpecPatch == InitRsvp /\ [][NextPatch]_vars

GetEventRsvps ==
    \E caller \in UserIds, event_id \in EventIds : get_event_rsvps(caller, event_id)

\* The RSVP roster: two organizers who own events and RSVP to them.
NextRoster == OwnerCreate \/ CreateRsvp \/ CreateRsvpInsert \/ GetEventRsvps

SpecRoster == Seeded({TwoOrganizers}) /\ [][NextRoster]_vars

\* One attendee (the student) and the first event: RSVP, cancel, RSVP again,
\* while the organizer creates the event and changes its price.
FirstEventRsvp == create_rsvp_check(2, 1)

FirstEventCancel == cancel_rsvp(2, 1)

NextRecreate ==
    \/ CreateEventValid
    \/ UpdatePrice
    \/ FirstEventRsvp
    \/ CreateRsvpInsert
    \/ FirstEventCancel

SpecRecreate == InitRsvp /\ [][NextRecreate]_vars

\* Events, RSVPs and comments together.
Next ==
    \/ CreateEventValid
    \/ UpdatePrice
    \/ DeleteEvent
    \/ CreateRsvp
    \/ CreateRsvpInsert
    \/ CancelRsvp
    \/ GetRsvpStatus
    \/ CreateComment
    \/ DeleteComment

Spec == InitSeeded /\ [][Next]_vars

\* ---------------------------------------------------------------- claims
\* The rows of (user_id, event_id) in a value of the RSVP table.
RowsOf(table, user_id, event_id) ==
    {r \in table : r.user_id = user_id /\ r.event_id = event_id}

\* The requests a step added to a bag of in-flight requests.
Admitted(before, after) ==
    {q \in BagToSet(after) : CopiesIn(q, after) > CopiesIn(q, before)}

\* C1: in every reachable state there is at most one RSVP per
\* (user_id, event_id) pair. The code declares no unique constraint on RSVP,
\* so two create_rsvp requests that both pass the existence check both insert.
C1_OneRsvpPerPair ==
    \A r1 \in rsvps, r2 \in rsvps :
        (r1.user_id = r2.user_id /\ r1.event_id = r2.event_id) => r1 = r2

\* C2: a create_rsvp by a user who already has an RSVP for the event answers
\* 400 "Already RSVP'd to this event" and leaves the RSVP table (and the
\* requests in flight) unchanged.
C2_DuplicateRejected ==
    [][\A caller \in UserIds, event_id \in EventIds :
         (RowsOf(rsvps, caller, event_id) # {} /\ create_rsvp_check(caller, event_id))
           => /\ resp' = Reply("create_rsvp", 400, "Already RSVP'd to this event")
              /\ rsvps' = rsvps
              /\ rsvp_inflight' = rsvp_inflight]_vars

\* C2 witness: the duplicate error was answered while an RSVP is stored.
C2_Witness ==
    /\ resp = Reply("create_rsvp", 400, "Already RSVP'd to this event")
    /\ rsvps # {}

\* C3 as stated: the payment_status of a created RSVP is 'free' if and only if
\* the event's stored price is 0 at the moment the row is inserted, otherwise
\* 'pending'.
C3_FreeIffPriceAtInsert ==
    [][\A r \in rsvps' \ rsvps : \A e \in EventsById(r.event_id) :
         /\ r.payment_status = "free" <=> e.price = 0
         /\ r.payment_status = "pending" <=> e.price # 0]_vars

\* C3 amended: a request admitted by create_rsvp carries the price the event
\* had when the handler loaded it, and the RSVP it inserts is 'free' if and
\* only if that price is 0, otherwise 'pending'.
C3_FreeIffPriceAtLookup ==
    [][/\ \A caller \in UserIds, event_id \in EventIds :
            create_rsvp_check(caller, event_id)
              => \A q \in Admitted(rsvp_inflight, rsvp_inflight') :
                   \E e \in EventsById(event_id) :
                     q.user_id = caller /\ q.event_id = event_id /\ q.price = e.price
       /\ \A q \in BagToSet(rsvp_inflight) :
            create_rsvp_insert(q)
              => \A r \in rsvps' \ rsvps :
                   /\ r.user_id = q.user_id /\ r.event_id = q.event_id
                   /\ r.payment_status = "free" <=> q.price = 0
                   /\ r.payment_status = "pending" <=> q.price # 0]_vars

\* C3 witness: RSVPs were created for a free and for a priced event.
C3_Witness ==
    /\ resp = Reply("create_rsvp", 201, "RSVP created successfully")
    /\ \E r \in rsvps : r.payment_status = "free"
    /\ \E r \in rsvps : r.payment_status = "pending"

\* An update_event request by caller for event_id.
UpdateBy(caller, event_id) ==
    \E data \in NewPriceBodies : update_event(caller, event_id, data)

\* A create_event request by caller.
CreateBy(caller) == \E data \in CreateBodies : create_event(caller, data)

\* C4: update_event and delete_event on an existing event by a caller other
\* than its organizer answer 403 and leave events, RSVPs and comments unchanged;
\* an event is changed or removed only by a request of its organizer, and its
\* organizer_id stays.
C4_OnlyOrganizerMutates ==
    [][/\ \A caller \in UserIds, event_id \in EventIds : \A e \in EventsById(event_id) :
            (/\ e.organizer_id # caller
             /\ resp'.op \in {"update_event", "delete_event"}
             /\ (UpdateBy(caller, event_id) \/ delete_event(caller, event_id)))
              => /\ resp'.status = 403
                 /\ events' = events /\ rsvps' = rsvps /\ comments' = comments
       /\ \A e \in events \ events' :
            UpdateBy(e.organizer_id, e.id) \/ delete_event(e.organizer_id, e.id)
       /\ \A e \in events, f \in events' :
            f.id = e.id => f.organizer_id = e.organizer_id]_vars

\* C4 witness: a delete by a non-organizer was refused for an event that has
\* an RSVP and a comment.
C4_Witness ==
    /\ resp = Reply("delete_event", 403, "Only the organizer can delete this event")
    /\ \E e \in events :
         /\ \E r \in rsvps : r.event_id = e.id
         /\ \E c \in comments : c.event_id = e.id

\* C5: delete_event by the event's organizer removes the event and every RSVP
\* and Comment with its event_id. The code declares no cascade, so the delete
\* of an event with dependents fails and removes nothing.
C5_DeleteCascades ==
    [][\A caller \in UserIds, event_id \in EventIds : \A e \in EventsById(event_id) :
         (e.organizer_id = caller /\ delete_event(caller, event_id))
           => /\ {x \in events' : x.id = event_id} = {}
              /\ {r \in rsvps' : r.event_id = event_id} = {}
              /\ {c \in comments' : c.event_id = event_id} = {}]_vars

\* C6: a register request for an email that a user already holds fails (400 at
\* the existence check, or the store's rejection at the insert) and adds no
\* user, and no two users share an email.
C6_UniqueEmail ==
    [][/\ \A data \in RegisterBodies :
            (UsersByEmail(data.email) # {} /\ data.name # "" /\ data.password # ""
               /\ register_check(data))
              => /\ resp' = Reply("register", 400, "Email already registered")
                 /\ users' = users
                 /\ reg_inflight' = reg_inflight
       /\ \A u \in BagToSet(reg_inflight) :
            (UsersByEmail(u.email) # {} /\ register_insert(u))
              => resp'.status >= 400 /\ users' = users
       /\ \A i \in 1..Len(users'), j \in 1..Len(users') :
            users'[i].email = users'[j].email => i = j]_vars

\* C6 witness: of two interleaved registrations of one email, the second
\* insert was rejected.
C6_Witness ==
    /\ resp = IntegrityError("register")
    /\ users # <<>>

\* C7: delete_comment on an existing comment by a caller other than its author
\* answers 403 and leaves the comment; a comment is removed only by the
\* delete_comment of its author.
C7_OnlyAuthorDeletes ==
    [][/\ \A caller \in UserIds, comment_id \in CommentIds :
            \A c \in CommentsById(comment_id) :
              (c.user_id # caller /\ delete_comment(caller, comment_id))
                => /\ resp' = Reply("delete_comment", 403,
                                    "Only the comment author can delete this comment")
                   /\ comments' = comments
       /\ \A c \in comments \ comments' :
            /\ delete_comment(c.user_id, c.id)
            /\ resp' = Reply("delete_comment", 200, "Comment deleted successfully")]_vars

\* C7 witness: a delete by another user was refused and the comment is stored.
C7_Witness ==
    /\ resp = Reply("delete_comment", 403, "Only the comment author can delete this comment")
    /\ comments # {}

\* C8: create_event by a caller whose role is not 'organizer' answers 403 and
\* creates no event, and every event's organizer_id is the id of a user whose
\* role is 'organizer'.
C8_OrganizersOwnEvents ==
    [][/\ \A caller \in UserIds :
            (users[caller].role # "organizer" /\ CreateBy(caller))
              => /\ resp' = Reply("create_event", 403, "Only organizers can create events")
                 /\ events' = events
                 /\ next_event_id' = next_event_id
       /\ \A e \in events' :
            /\ e.organizer_id \in 1..Len(users')
            /\ users'[e.organizer_id].role = "organizer"]_vars

\* C8 witness: a student was refused while an organizer's event exists.
C8_Witness ==
    /\ resp = Reply("create_event", 403, "Only organizers can create events")
    /\ events # {}

\* C9: cancel_rsvp by a user with an RSVP for the event removes it, leaves the
\* rows of every other (user, event) pair and puts the pair back in not_rsvpd;
\* without an RSVP it answers 404 and changes nothing. With the duplicate rows
\* of C1 one cancel removes one row and the pair stays rsvpd.
C9_CancelRestoresNotRsvpd ==
    [][\A caller \in UserIds, event_id \in EventIds :
         cancel_rsvp(caller, event_id)
           => IF RowsOf(rsvps, caller, event_id) # {}
              THEN /\ resp' = Reply("cancel_rsvp", 200, "RSVP cancelled successfully")
                   /\ RowsOf(rsvps', caller, event_id) = {}
                   /\ rsvps' = rsvps \ RowsOf(rsvps, caller, event_id)
              ELSE /\ resp' = Reply("cancel_rsvp", 404, "RSVP not found")
                   /\ rsvps' = rsvps]_vars

\* C10: get_rsvp_status answers 'rsvpd' with the payment_status of a stored
\* RSVP of (caller, event) exactly when one exists, 'not_rsvpd' otherwise, and
\* changes nothing.
C10_StatusReflectsStore ==
    [][\A caller \in UserIds, event_id \in EventIds :
         get_rsvp_status(caller, event_id)
           => /\ IF RowsOf(rsvps, caller, event_id) = {}
                 THEN resp' = Response("get_rsvp_status", 200, "", "not_rsvpd", "")
                 ELSE /\ resp'.rsvp_status = "rsvpd"
                      /\ resp'.status = 200
                      /\ \E r \in RowsOf(rsvps, caller, event_id) :
                           resp'.payment_status = r.payment_status
              /\ rsvps' = rsvps /\ events' = events]_vars

\* C10 witness: an attendee other than the organizer RSVP'd to an event of
\* price 0 and was answered rsvpd / free.
C10_Witness ==
    /\ resp = Response("get_rsvp_status", 200, "", "rsvpd", "free")
    /\ \E e \in events, r \in rsvps :
         /\ r.event_id = e.id /\ r.user_id # e.organizer_id
         /\ e.price = 0 /\ r.payment_status = "free"
    /\ \A r \in rsvps : r.payment_status = "free"

\* C11: a successful update_event by the organizer changes only the fields the
\* request supplies: every field it does not supply keeps its value, id and
\* organizer_id stay, every other event stays, and a supplied price of 0 is
\* applied.
C11_PartialPatch ==
    [][\A caller \in UserIds, event_id \in EventIds, data \in PatchBodies :
         \A e \in {x \in events : x.id = event_id} :
           (/\ resp' = Reply("update_event", 200, "Event updated successfully")
            /\ e.organizer_id = caller
            /\ update_event(caller, event_id, data))
             => \E f \in events' :
                  /\ events' = (events \ {e}) \cup {f}
                  /\ f.id = e.id
                  /\ f.organizer_id = e.organizer_id
                  /\ data.title = "" => f.title = e.title
                  /\ data.description = "" => f.description = e.description
                  /\ data.date = "" => f.date = e.date
                  /\ data.location = "" => f.location = e.location
                  /\ data.price = {} => f.price = e.price
                  /\ data.banner = "" => f.banner = e.banner
                  /\ data.price = {0} => f.price = 0
                  /\ data.title # "" => f.title = data.title]_vars

\* C11 witness: an event created with its defaults was patched: the title and
\* the price are the supplied ones, the description and the date are the
\* created ones.
C11_Witness ==
    /\ resp = Reply("update_event", 200, "Event updated successfully")
    /\ \E e \in events :
         /\ e.title = "Talk2" /\ e.price = 0
         /\ e.description = "About" /\ e.date = 1 /\ e.banner = ""

C13_MalformedDatePersistsNothing ==
    [][\A caller \in UserIds, event_id \in EventIds, data \in PatchBodies :
         \A e \in {x \in events : x.id = event_id} :
           (/\ e.organizer_id = caller
            /\ data.date # "" /\ ~FromIsoFormat(ReplaceZ(data.date)).ok
            /\ update_event(caller, event_id, data))
             => /\ resp' = Reply("update_event", 400, "Invalid date format")
                /\ events' = events]_vars

\* C13 witness: a request with a new title and a malformed date was refused
\* and the event still has the title it was created with.
C13_Witness ==
    /\ resp = Reply("update_event", 400, "Invalid date format")
    /\ \E e \in events : e.title = "Talk" /\ e.description = "About"

\* C14: after a create_rsvp and a cancel_rsvp of one user for one event, the
\* user's next create_rsvp for the event is not rejected as a duplicate: it is
\* admitted with the event's current price, and the RSVP it inserts takes its
\* payment_status from that price. Under SpecRecreate the only RSVP requests
\* are those of user 2 for event 1, so the response of a successful cancel
\* identifies the pair. With the duplicate rows of C1 the cancel removes one
\* row and the next create_rsvp is rejected.
C14_RecreateAfterCancel ==
    [][/\ (/\ resp = Reply("cancel_rsvp", 200, "RSVP cancelled successfully")
            /\ {e \in events : e.id = 1} # {}
            /\ create_rsvp_check(2, 1))
             => /\ resp' # Reply("create_rsvp", 400, "Already RSVP'd to this event")
                /\ \E q \in Admitted(rsvp_inflight, rsvp_inflight') :
                     \E e \in events :
                       e.id = 1 /\ q.user_id = 2 /\ q.event_id = 1 /\ q.price = e.price
       /\ \A q \in BagToSet(rsvp_inflight) :
            create_rsvp_insert(q)
              => \A r \in rsvps' \ rsvps :
                   r.payment_status = (IF q.price = 0 THEN "free" ELSE "pending")]_vars

\* C15: an RSVP keeps its payment_status for as long as it is stored: no step,
\* an update_event that moves the event's price between 0 and a positive value
\* included, changes a stored row, and no row ever has the status 'paid'.
C15_PaymentStatusFrozen ==
    [][/\ \A r \in rsvps, s \in rsvps' :
            s.id = r.id => s.payment_status = r.payment_status /\ s = r
       /\ \A s \in rsvps' : s.payment_status # "paid"
       /\ \A s \in rsvps' : s.payment_status \in {"free", "pending"}]_vars

\* C15 witness: after an update_event the stored price of an event no longer
\* matches the payment_status of its RSVPs: a 'free' RSVP on an event priced 5
\* beside a 'pending' one.
C15_Witness ==
    /\ resp = Reply("update_event", 200, "Event updated successfully")
    /\ \E e \in events, r1 \in rsvps, r2 \in rsvps :
         /\ r1.event_id = e.id /\ r2.event_id = e.id /\ e.price = 5
         /\ r1.payment_status = "free" /\ r2.payment_status = "pending"

\* C16: every stored RSVP and every stored Comment has the event_id of a
\* stored event; a create_rsvp for an event id that no event has answers 404
\* and neither stores nor admits anything, and a create_comment for such an id
\* is refused and stores no comment.
C16_DependentsReferToEvents ==
    [][/\ \A r \in rsvps' : \E e \in events' : e.id = r.event_id
       /\ \A c \in comments' : \E e \in events' : e.id = c.event_id
       /\ \A caller \in UserIds, event_id \in EventIds :
            ({e \in events : e.id = event_id} = {} /\ create_rsvp_check(caller, event_id))
              => /\ resp' = Reply("create_rsvp", 404, "Not Found")
                 /\ rsvps' = rsvps
                 /\ rsvp_inflight' = rsvp_inflight
       /\ \A caller \in UserIds, event_id \in EventIds :
            ({e \in events : e.id = event_id} = {} /\ create_comment(caller, event_id, "hi"))
              => /\ resp'.status >= 400
                 /\ comments' = comments]_vars

\* C16 witness: the event was created and then deleted, and a comment on its
\* id was refused.
C16_Witness ==
    /\ resp = Reply("create_comment", 500, "Internal Server Error")
    /\ events = {} /\ comments = {}
    /\ next_event_id > 1

====
